---- MODULE Spec2Model ----
(***************************************************************************)
(* The Streamlit chat client of src/streamlit_app.py as a state machine.   *)
(* One browser session: the session state (messages, thread_id,            *)
(* api_available), the position of the script run (pc), the widget that    *)
(* triggered the run, and the HTTP requests the run issues.  The backend   *)
(* is the environment: every response is drawn from a small set.           *)
(***************************************************************************)
EXTENDS Integers, Sequences, FiniteSets, TLC

VARIABLES messages, thread_id, api_available, clock, pc, widget, prompt,
          event, pre, reqs, inflight, response, notices

vars == <<messages, thread_id, api_available, clock, pc, widget, prompt,
          event, pre, reqs, inflight, response, notices>>

----------------------------------------------------------------------------
(* Bounds of the model *)

MaxClock == 1
TicksPerSecond == 1
MaxHistLen == 1
MaxLog == 4

----------------------------------------------------------------------------
(* Python values *)

None == -1

PyNone == [py_none |-> TRUE]

EmptyDict == [k \in {} |-> TRUE]

Get(d, k, default) == IF k \in DOMAIN d THEN d[k] ELSE default

Truthy(d) == d # PyNone /\ DOMAIN d # {}

----------------------------------------------------------------------------
(* Clock and the values derived from it *)

MsPerTick == 1000 \div TicksPerSecond

NowMs(now) == now * MsPerTick

NewThreadId(now) == "thread_" \o ToString(now \div TicksPerSecond)

----------------------------------------------------------------------------
(* What the user can type and what the backend can answer *)

Prompts == {"hello"}

BackendMsgs ==
    { [role |-> "system", content |-> "hello", timestamp |-> 1],
      [timestamp |-> 2] }

SeqsUpTo(S, n) == UNION { [1..k -> S] : k \in 0..n }

(* A history of two entries, so that the order of entries always matters. *)
SampleHistory ==
    << [role |-> "system", content |-> "hello", timestamp |-> 1],
       [timestamp |-> 2] >>

Histories == SeqsUpTo(BackendMsgs, MaxHistLen) \cup {SampleHistory}

Http(status, body, json) ==
    [kind |-> "http", status |-> status, body |-> body, json |-> json]

Failure(kind, text) ==
    [kind |-> kind, status |-> 0, body |-> text, json |-> EmptyDict]

NoResponse == Failure("none", "")

HealthOutcomes ==
    { Http(200, "", [initialized |-> TRUE]),
      Http(200, "", [initialized |-> FALSE]),
      Http(200, "", EmptyDict),
      Http(503, "down", EmptyDict),
      Failure("timeout", "Read timed out"),
      Failure("neterror", "Connection refused") }

HistoryOutcomes ==
    { Http(200, "", [history |-> h]) : h \in Histories }
    \cup { Http(200, "", EmptyDict),
           Http(404, "not found", EmptyDict),
           Failure("neterror", "Connection refused") }

ChatJson ==
    { [response |-> "hi there"], EmptyDict,
      [error |-> "graph failed"],
      [error |-> "graph failed", response |-> "partial"] }
    \cup { [conversationHistory |-> h] : h \in Histories }
    \cup { [response |-> "hi there", conversationHistory |-> h] : h \in Histories }

ChatOutcomes ==
    { Http(200, "", j) : j \in ChatJson }
    \cup { Http(500, "server exploded", EmptyDict),
           Http(500, "", EmptyDict),
           Failure("timeout", "Read timed out"),
           Failure("neterror", "Connection refused") }

----------------------------------------------------------------------------
(* API client *)

check_api_health(o) ==
    IF o.kind = "http" /\ o.status = 200 THEN o.json ELSE PyNone

load_history(o) ==
    IF o.kind = "http" /\ o.status = 200
    THEN Get(o.json, "history", <<>>)
    ELSE <<>>

send_messageDropsBody(o) ==
    IF o.kind = "http"
    THEN IF o.status = 200
         THEN o.json
         ELSE [error |-> "API error: " \o ToString(o.status)]
    ELSE IF o.kind = "timeout"
         THEN [error |-> "Request timeout"]
         ELSE [error |-> o.body,
               response |-> "Error connecting to API: " \o o.body]

send_message(o) ==
    IF o.kind = "http"
    THEN IF o.status = 200
         THEN o.json
         ELSE [error |-> "API error: " \o ToString(o.status),
               response |-> o.body]
    ELSE IF o.kind = "timeout"
         THEN [error |-> "Request timeout",
               response |-> "The request took too long. Please try again."]
         ELSE [error |-> o.body,
               response |-> "Error connecting to API: " \o o.body]

HealthRequest == [kind |-> "health"]

HistoryRequestStaleThread == [kind |-> "history", threadId |-> pre.thread_id]

HistoryRequest == [kind |-> "history", threadId |-> thread_id]

ChatRequest == [kind |-> "chat", threadId |-> thread_id, message |-> prompt]

----------------------------------------------------------------------------
(* Conversion of backend entries and application of a send result *)

Message(role, content, timestamp) ==
    [role |-> role, content |-> content, timestamp |-> timestamp]

ConvertMsg(msg) ==
    Message(Get(msg, "role", "assistant"), Get(msg, "content", ""),
            Get(msg, "timestamp", None))

ConvertHistory(history) ==
    [i \in 1..Len(history) |-> ConvertMsg(history[i])]

AppendPair(log, text, reply, now) ==
    log \o << Message("user", text, NowMs(now)),
              Message("assistant", reply, NowMs(now)) >>

HasHistoryKey(result) == "conversationHistory" \in DOMAIN result

HasHistory(result) ==
    "conversationHistory" \in DOMAIN result /\ result.conversationHistory # <<>>

ApplyResultSkipsErrors(log, text, result, now) ==
    IF "error" \in DOMAIN result
    THEN log
    ELSE IF HasHistory(result)
         THEN ConvertHistory(result.conversationHistory)
         ELSE AppendPair(log, text,
                         Get(result, "response", "No response received"), now)

ApplyResultKeepsLog(log, text, result, now) ==
    IF "error" \in DOMAIN result
    THEN AppendPair(log, text,
                    "Error: " \o Get(result, "response", "No response received"),
                    now)
    ELSE IF HasHistory(result)
         THEN log \o ConvertHistory(result.conversationHistory)
         ELSE AppendPair(log, text,
                         Get(result, "response", "No response received"), now)

ApplyResult(log, text, result, now) ==
    IF "error" \in DOMAIN result
    THEN AppendPair(log, text,
                    "Error: " \o Get(result, "response", "No response received"),
                    now)
    ELSE IF HasHistory(result)
         THEN ConvertHistory(result.conversationHistory)
         ELSE AppendPair(log, text,
                         Get(result, "response", "No response received"), now)

ReloadedLogAlways(log, history) == ConvertHistory(history)

(* Lines 212-219: a fetched history replaces the log only if non-empty. *)
ReloadedLog(log, history) ==
    IF history # <<>> THEN ConvertHistory(history) ELSE log

----------------------------------------------------------------------------
(* Notices shown by the page *)

Notice(level, text) == <<level, text>>

StatusDisplay ==
    IF api_available
    THEN { Notice("success", "Connected to API") }
    ELSE { Notice("error", "API not available"),
           Notice("info", "Make sure the API server is running") }

Snapshot ==
    [messages |-> messages, thread_id |-> thread_id,
     api_available |-> api_available]

----------------------------------------------------------------------------
(* Session start: lines 15-22 have run, the first script run begins *)

Init ==
    /\ clock = 0
    /\ messages = <<>>
    /\ thread_id = NewThreadId(clock)
    /\ api_available = FALSE
    /\ pc = "check_button"
    /\ widget = "none"
    /\ prompt = ""
    /\ event = "start"
    /\ pre = [messages |-> <<>>, thread_id |-> NewThreadId(clock),
              api_available |-> FALSE]
    /\ reqs = <<>>
    /\ inflight = {}
    /\ response = NoResponse
    /\ notices = {}

Tick ==
    /\ clock < MaxClock
    /\ clock' = clock + 1
    /\ UNCHANGED <<messages, thread_id, api_available, pc, widget, prompt,
                   event, pre, reqs, inflight, response, notices>>

ScriptIdleOrSending == pc \in {"idle", "send_message"}

(* The script has run to its end (or st.stop()) and waits for the user. *)
ScriptIdle == pc = "idle"

UserAction(w, text) ==
    /\ ScriptIdle
    /\ widget' = w
    /\ event' = w
    /\ prompt' = text
    /\ pre' = Snapshot
    /\ reqs' = <<>>
    /\ notices' = {}
    /\ response' = NoResponse
    /\ pc' = "check_button"
    /\ UNCHANGED <<messages, thread_id, api_available, clock, inflight>>

Submit ==
    \E text \in Prompts :
        /\ Len(messages) + 2 <= MaxLog
        /\ UserAction("chat", text)

ClickCheckStatus == UserAction("check", prompt)

ClickClear == UserAction("clear", prompt)

ClickLoadHistory == UserAction("load", prompt)

(* st.rerun(): the script starts again from the top, no widget triggered. *)
Rerun ==
    /\ pc' = "check_button"
    /\ widget' = "none"
    /\ notices' = {}

Issue(req) ==
    /\ inflight' = inflight \cup {req}
    /\ reqs' = Append(reqs, req)

----------------------------------------------------------------------------
(* The script run, lines 91-225 *)

(* Lines 92-93: the Check API Status button. *)
CheckStatusButton ==
    /\ pc = "check_button"
    /\ IF widget = "check"
       THEN /\ Issue(HealthRequest)
            /\ pc' = "check_health"
       ELSE /\ pc' = "first_load"
            /\ UNCHANGED <<inflight, reqs>>
    /\ UNCHANGED <<messages, thread_id, api_available, clock, widget, prompt,
                   event, pre, response, notices>>

CheckStatusNotices(health) ==
    IF Truthy(health)
    THEN { Notice("success", "API is available"),
           IF Get(health, "initialized", FALSE)
           THEN Notice("success", "Graph service initialized")
           ELSE Notice("warning", "Graph service not initialized") }
    ELSE { Notice("error", "API is not available") }

(* Lines 93-103: the health answer of the manual check. *)
CheckStatusResponse ==
    /\ pc = "check_health"
    /\ \E o \in HealthOutcomes :
        LET health == check_api_health(o) IN
        /\ response' = o
        /\ api_available' = Truthy(health)
        /\ notices' = notices \cup CheckStatusNotices(health)
    /\ inflight' = {}
    /\ pc' = "first_load"
    /\ UNCHANGED <<messages, thread_id, clock, widget, prompt, event, pre, reqs>>

FirstLoadOnlyAtStart ==
    /\ pc = "first_load"
    /\ IF messages = <<>> /\ event = "start"
       THEN /\ Issue(HealthRequest)
            /\ pc' = "first_load_health"
       ELSE /\ pc' = "chat_input"
            /\ UNCHANGED <<inflight, reqs>>
    /\ UNCHANGED <<messages, thread_id, api_available, clock, widget, prompt,
                   event, pre, response, notices>>

(* Lines 106-107: a run that finds the log empty checks the health. *)
FirstLoad ==
    /\ pc = "first_load"
    /\ IF messages = <<>>
       THEN /\ Issue(HealthRequest)
            /\ pc' = "first_load_health"
       ELSE /\ pc' = "chat_input"
            /\ UNCHANGED <<inflight, reqs>>
    /\ UNCHANGED <<messages, thread_id, api_available, clock, widget, prompt,
                   event, pre, response, notices>>

(* Lines 107-109: the health answer; if available the history is fetched. *)
FirstLoadHealthResponse ==
    /\ pc = "first_load_health"
    /\ \E o \in HealthOutcomes :
        LET available == check_api_health(o) # PyNone IN
        /\ response' = o
        /\ api_available' = available
        /\ IF available
           THEN /\ inflight' = {HistoryRequest}
                /\ reqs' = Append(reqs, HistoryRequest)
                /\ pc' = "first_load_history"
           ELSE /\ inflight' = {}
                /\ pc' = "chat_input"
                /\ UNCHANGED reqs
    /\ UNCHANGED <<messages, thread_id, clock, widget, prompt, event, pre, notices>>

LoadHistoryNotices(o) ==
    IF o.kind = "http"
    THEN {}
    ELSE { Notice("error", "Error loading history: " \o o.body) }

(* Lines 109-119: the fetched history is appended to the (empty) log. *)
FirstLoadHistoryResponse ==
    /\ pc = "first_load_history"
    /\ \E o \in HistoryOutcomes :
        LET history == load_history(o) IN
        /\ response' = o
        /\ notices' = notices \cup LoadHistoryNotices(o)
        /\ messages' = IF history # <<>>
                       THEN messages \o ConvertHistory(history)
                       ELSE messages
    /\ inflight' = {}
    /\ pc' = "chat_input"
    /\ UNCHANGED <<thread_id, api_available, clock, widget, prompt, event, pre, reqs>>

(* Lines 126-158: status display, then the chat input. *)
ChatInput ==
    /\ pc = "chat_input"
    /\ IF widget = "chat"
       THEN IF ~api_available
            THEN /\ notices' = notices \cup StatusDisplay \cup
                        { Notice("error", "API is not available. Please check the API server is running.") }
                 /\ pc' = "idle"
                 /\ UNCHANGED <<inflight, reqs>>
            ELSE /\ notices' = notices \cup StatusDisplay
                 /\ Issue(ChatRequest)
                 /\ pc' = "send_message"
       ELSE /\ notices' = notices \cup StatusDisplay
            /\ pc' = "clear_button"
            /\ UNCHANGED <<inflight, reqs>>
    /\ UNCHANGED <<messages, thread_id, api_available, clock, widget, prompt,
                   event, pre, response>>

SendResponseMarksUnavailable ==
    /\ pc = "send_message"
    /\ \E o \in ChatOutcomes :
        /\ response' = o
        /\ messages' = ApplyResult(messages, prompt, send_message(o), clock)
        /\ api_available' = (api_available /\ "error" \notin DOMAIN send_message(o))
    /\ inflight' = {}
    /\ Rerun
    /\ UNCHANGED <<thread_id, clock, prompt, event, pre, reqs>>

(* Lines 158-200: the answer of the send is applied and the script reruns. *)
SendResponse ==
    /\ pc = "send_message"
    /\ \E o \in ChatOutcomes :
        /\ response' = o
        /\ messages' = ApplyResult(messages, prompt, send_message(o), clock)
    /\ inflight' = {}
    /\ Rerun
    /\ UNCHANGED <<thread_id, api_available, clock, prompt, event, pre, reqs>>

(* Lines 204-207: the Clear Chat button. *)
ClearButton ==
    /\ pc = "clear_button"
    /\ IF widget = "clear"
       THEN /\ messages' = <<>>
            /\ thread_id' = NewThreadId(clock)
            /\ Rerun
       ELSE /\ pc' = "load_button"
            /\ UNCHANGED <<messages, thread_id, widget, notices>>
    /\ UNCHANGED <<api_available, clock, prompt, event, pre, reqs, inflight, response>>

LoadHistoryButtonUngated ==
    /\ pc = "load_button"
    /\ IF widget = "load"
       THEN /\ Issue(HistoryRequest)
            /\ pc' = "load_history"
       ELSE /\ pc' = "idle"
            /\ UNCHANGED <<inflight, reqs>>
    /\ UNCHANGED <<messages, thread_id, api_available, clock, widget, prompt,
                   event, pre, response, notices>>

(* Lines 209-211 and 224-225: the Load History button. *)
LoadHistoryButton ==
    /\ pc = "load_button"
    /\ IF widget = "load"
       THEN IF api_available
            THEN /\ Issue(HistoryRequest)
                 /\ pc' = "load_history"
                 /\ UNCHANGED notices
            ELSE /\ notices' = notices \cup { Notice("error", "API is not available") }
                 /\ pc' = "idle"
                 /\ UNCHANGED <<inflight, reqs>>
       ELSE /\ pc' = "idle"
            /\ UNCHANGED <<inflight, reqs, notices>>
    /\ UNCHANGED <<messages, thread_id, api_available, clock, widget, prompt,
                   event, pre, response>>

(* Lines 211-223: the fetched history replaces the log, or a notice. *)
LoadHistoryResponse ==
    /\ pc = "load_history"
    /\ \E o \in HistoryOutcomes :
        LET history == load_history(o) IN
        /\ response' = o
        /\ messages' = ReloadedLog(messages, history)
        /\ IF history # <<>>
           THEN Rerun
           ELSE /\ notices' = notices \cup LoadHistoryNotices(o)
                                \cup { Notice("info", "No history found") }
                /\ pc' = "idle"
                /\ UNCHANGED widget
    /\ inflight' = {}
    /\ UNCHANGED <<thread_id, api_available, clock, prompt, event, pre, reqs>>

Next ==
    \/ Tick
    \/ Submit
    \/ ClickCheckStatus
    \/ ClickClear
    \/ ClickLoadHistory
    \/ CheckStatusButton
    \/ CheckStatusResponse
    \/ FirstLoad
    \/ FirstLoadHealthResponse
    \/ FirstLoadHistoryResponse
    \/ ChatInput
    \/ SendResponse
    \/ ClearButton
    \/ LoadHistoryButton
    \/ LoadHistoryResponse

Spec == Init /\ [][Next]_vars

(* The steps of a script run.  The interpreter runs the script to its end  *)
(* and every request has a timeout (lines 39, 51, 70), so a step that is   *)
(* enabled is eventually taken; the user and the clock owe nothing.        *)
ScriptStep ==
    \/ CheckStatusButton
    \/ CheckStatusResponse
    \/ FirstLoad
    \/ FirstLoadHealthResponse
    \/ FirstLoadHistoryResponse
    \/ ChatInput
    \/ SendResponse
    \/ ClearButton
    \/ LoadHistoryButton
    \/ LoadHistoryResponse

FairSpec == Spec /\ WF_vars(ScriptStep)

----------------------------------------------------------------------------
(* Vocabulary of the properties *)

(* The run handling the current user action has ended (script end or st.stop). *)
Handled(w) == pc = "idle" /\ event = w

(* The user action being handled issued a chat request and got its result. *)
SendDone ==
    /\ Handled("chat")
    /\ reqs # <<>>
    /\ reqs[Len(reqs)].kind = "chat"

LastResult == send_message(response)

IsUserEntry(m, text) == m.role = "user" /\ m.content = text

IsAssistantEntry(m, text) == m.role = "assistant" /\ m.content = text

(* log is base followed by a user entry and an assistant entry. *)
IsPairAppended(log, base, text, reply) ==
    /\ Len(log) = Len(base) + 2
    /\ SubSeq(log, 1, Len(base)) = base
    /\ IsUserEntry(log[Len(base) + 1], text)
    /\ IsAssistantEntry(log[Len(base) + 2], reply)

(* log is the backend history h entry by entry, with the defaults applied. *)
IsHistoryVerbatim(log, h) ==
    /\ Len(log) = Len(h)
    /\ \A i \in 1..Len(h) :
        /\ log[i].role = (IF "role" \in DOMAIN h[i] THEN h[i].role ELSE "assistant")
        /\ log[i].content = (IF "content" \in DOMAIN h[i] THEN h[i].content ELSE "")
        /\ log[i].timestamp = (IF "timestamp" \in DOMAIN h[i] THEN h[i].timestamp ELSE None)

----------------------------------------------------------------------------
(* C1: a submission made while api_available is false is rejected: no HTTP *)
(* request is issued while it is handled and the log stays as it was.      *)
C1_RejectedSendIsSilent ==
    (event = "chat" /\ ~pre.api_available)
        => (reqs = <<>> /\ messages = pre.messages)

(* C2: a successful send whose result carries only a response leaves the   *)
(* log held at the moment of submission with exactly the user entry and    *)
(* the assistant entry appended.                                           *)
C2_ResponseOnlyAppendsPair ==
    (/\ SendDone
     /\ "error" \notin DOMAIN LastResult
     /\ "conversationHistory" \notin DOMAIN LastResult
     /\ "response" \in DOMAIN LastResult)
        => IsPairAppended(messages, pre.messages, prompt, LastResult.response)

(* C3: after a successful send whose result carries a full conversation    *)
(* history the log is exactly that history (missing role read as           *)
(* "assistant", missing content as ""), whatever the log held before.      *)
C3_FullHistoryReplacesLog ==
    (/\ SendDone
     /\ "error" \notin DOMAIN LastResult
     /\ HasHistory(LastResult))
        => IsHistoryVerbatim(messages, LastResult.conversationHistory)

C3_Witness ==
    /\ SendDone
    /\ "error" \notin DOMAIN LastResult
    /\ HasHistory(LastResult)
    /\ "role" \notin DOMAIN LastResult.conversationHistory[1]
    /\ pre.messages # <<>>
    /\ pre.messages # messages

(* C4: once a clear has completed the log is empty and the thread          *)
(* identifier differs from the one held before the clear.                  *)
C4_ClearResetsLogAndThread ==
    Handled("clear") => (messages = <<>> /\ thread_id # pre.thread_id)

(* C5: handling a clear issues no request to the backend.                  *)
C5_ClearIssuesNoRequest ==
    event = "clear" => reqs = <<>>

(* The step on which the answer of the chat request arrives and is applied. *)
SendCompletes == pc = "send_message" /\ pc' # "send_message"

(* The step on which the answer of the explicit history reload arrives. *)
ReloadCompletes == pc = "load_history" /\ pc' # "load_history"

AwaitingSend == \E r \in inflight : r.kind = "chat"

ErrorDisplayText(result) ==
    IF "response" \in DOMAIN result THEN result.response ELSE "No response received"

(* C6: a send that ends in an error result appends exactly the user entry  *)
(* and an assistant entry "Error: " + display text, prior entries          *)
(* unchanged; timeout and non-200 give the texts of the spec, and the      *)
(* generic text appears only when the result carries no response text.     *)
C6_ErrorSendAppendsErrorPair ==
    [][ (SendCompletes /\ "error" \in DOMAIN send_message(response'))
        => LET result == send_message(response')
               reply == messages'[Len(messages')].content
           IN /\ IsPairAppended(messages', messages, prompt,
                                "Error: " \o ErrorDisplayText(result))
              /\ response'.kind = "timeout"
                    => reply = "Error: The request took too long. Please try again."
              /\ (response'.kind = "http" /\ response'.status # 200)
                    => reply = "Error: " \o response'.body
              /\ reply = "Error: No response received"
                    => "response" \notin DOMAIN result ]_vars

C6_Witness ==
    /\ SendDone
    /\ response.kind = "http"
    /\ response.status = 500
    /\ response.body = "server exploded"
    /\ Len(messages) = 4
    /\ messages[4].content = "Error: server exploded"

(* C7: an explicit reload for which the backend returns an empty list      *)
(* leaves log, thread and api_available as they were and surfaces an       *)
(* informational notice and no error.                                      *)
C7_EmptyReloadKeepsState ==
    [][ (/\ ReloadCompletes
         /\ response'.kind = "http"
         /\ load_history(response') = <<>>)
        => /\ messages' = messages
           /\ thread_id' = thread_id
           /\ api_available' = api_available
           /\ Notice("info", "No history found") \in notices'
           /\ \A n \in notices' \ notices : n[1] # "error" ]_vars

C7_Witness ==
    /\ Handled("load")
    /\ reqs # <<>>
    /\ response.kind = "http"
    /\ response.status = 200
    /\ load_history(response) = <<>>
    /\ messages # <<>>
    /\ Notice("info", "No history found") \in notices

(* C8 as stated: for a successful send, whenever the conversationHistory   *)
(* key is present the log is replaced by its value and the response is     *)
(* not appended, for every value of the key including an empty list.       *)
C8_HistoryKeyAlwaysWins ==
    [][ (/\ SendCompletes
         /\ "error" \notin DOMAIN send_message(response')
         /\ "conversationHistory" \in DOMAIN send_message(response'))
        => IsHistoryVerbatim(messages',
                             send_message(response').conversationHistory) ]_vars

(* C8 amended: for a successful send a present and non-empty               *)
(* conversationHistory wins (the log is replaced by it, the response is    *)
(* not appended); an absent or empty one appends the user entry and the    *)
(* response text, "No response received" if there is none.                 *)
C8_NonEmptyHistoryWins ==
    [][ (SendCompletes /\ "error" \notin DOMAIN send_message(response'))
        => LET result == send_message(response')
           IN IF "conversationHistory" \in DOMAIN result
                 /\ Len(result.conversationHistory) > 0
              THEN IsHistoryVerbatim(messages', result.conversationHistory)
              ELSE IsPairAppended(messages', messages, prompt,
                                  ErrorDisplayText(result)) ]_vars

C8_Witness ==
    /\ SendDone
    /\ DOMAIN LastResult = {"response", "conversationHistory"}
    /\ LastResult.conversationHistory = <<>>
    /\ Len(messages) = 4
    /\ IsAssistantEntry(messages[4], LastResult.response)

C10_ThreadOnlyReplacedByClear ==
    [][ /\ thread_id' # thread_id => (pc = "clear_button" /\ widget = "clear")
        /\ \A r \in inflight' \ inflight :
              r.kind \in {"history", "chat"} => r.threadId = thread_id' ]_vars

C10_Witness ==
    /\ pc = "send_message"
    /\ thread_id # NewThreadId(0)
    /\ inflight = {[kind |-> "chat", threadId |-> thread_id, message |-> prompt]}

(* The step on which the answer of a health request arrives. *)
ManualCheckCompletes == pc = "check_health" /\ pc' # "check_health"

ImplicitCheckCompletes == pc = "first_load_health" /\ pc' # "first_load_health"

Answered200(o) == o.kind = "http" /\ o.status = 200

(* C11: both health-check paths set api_available to true exactly when the  *)
(* health endpoint answered HTTP 200, whatever the parsed body is, and to   *)
(* false otherwise, so the two paths agree on every health outcome.         *)
C11_HealthPathsAgreeOn200 ==
    [][ (ManualCheckCompletes \/ ImplicitCheckCompletes)
        => api_available' = Answered200(response') ]_vars

(* C12: api_available changes only on the answer of a health check; the     *)
(* outcome of a send or of a history fetch never changes it, so a failed    *)
(* send leaves the session accepting submissions, and with a non-empty log  *)
(* a false flag becomes true only through the manual status check.          *)
C12_FlagChangesOnlyOnHealthCheck ==
    [][ /\ api_available' # api_available
            => (ManualCheckCompletes \/ ImplicitCheckCompletes)
        /\ (messages # <<>> /\ ~api_available /\ api_available')
            => ManualCheckCompletes
        /\ (/\ pc = "chat_input"
            /\ pc' # "chat_input"
            /\ widget = "chat"
            /\ pre.messages # <<>>)
            => ((ChatRequest \in inflight') <=> pre.api_available) ]_vars

C12_Witness ==
    /\ pc = "send_message"
    /\ inflight = {ChatRequest}
    /\ Len(messages) = 2
    /\ messages[2].content = "Error: The request took too long. Please try again."
    /\ api_available

(* The steps of the implicit load of lines 106-119. *)
ImplicitLoadDecides == pc = "first_load" /\ pc' # "first_load"

ImplicitFetchCompletes == pc = "first_load_history" /\ pc' # "first_load_history"

ManualCheckHandled ==
    /\ widget = "check"
    /\ notices \cap { Notice("success", "API is available"),
                      Notice("error", "API is not available") } # {}

(* The handler of the widget that triggered the run has already acted. *)
TriggerHandled ==
    \/ ManualCheckHandled
    \/ /\ widget = "chat"
       /\ \/ ChatRequest \in inflight
          \/ Notice("error", "API is not available. Please check the API server is running.") \in notices
    \/ /\ widget = "load"
       /\ \/ pc = "load_history"
          \/ Notice("info", "No history found") \in notices
          \/ Notice("error", "API is not available") \in notices

(* What every run does at lines 106-119, whatever triggered it. *)
ImplicitLoadSteps ==
    /\ ImplicitLoadDecides
        => IF messages = <<>>
           THEN inflight' = {HealthRequest}
           ELSE inflight' = {} /\ reqs' = reqs /\ pc' = "chat_input"
    /\ ImplicitCheckCompletes
        => /\ api_available' = Answered200(response')
           /\ messages' = messages
           /\ IF api_available'
              THEN inflight' = {HistoryRequest}
              ELSE inflight' = {} /\ pc' = "chat_input"
    /\ ImplicitFetchCompletes
        => /\ api_available' = api_available
           /\ IF load_history(response') # <<>>
              THEN IsHistoryVerbatim(messages', load_history(response'))
              ELSE messages' = messages

(* A step of an implicit load that does take place (the log was empty). *)
ImplicitLoadRuns ==
    \/ ImplicitLoadDecides /\ messages = <<>>
    \/ ImplicitCheckCompletes
    \/ ImplicitFetchCompletes

ReloadStarts == pc = "load_button" /\ pc' # "load_button" /\ widget = "load"

ReloadReplacesLog ==
    (ReloadCompletes /\ load_history(response') # <<>>)
        => IsHistoryVerbatim(messages', load_history(response'))

(* C14 as stated: an explicit reload is effective in every session state,   *)
(* also when api_available is false: it asks the backend for the history of *)
(* the current thread and a non-empty answer replaces the log wholesale.    *)
C14_ReloadEffectiveInEveryState ==
    [][ /\ ReloadStarts => inflight' = {HistoryRequest}
        /\ ReloadReplacesLog ]_vars

(* C14 amended: an explicit reload made while api_available is true asks    *)
(* the backend and a non-empty answer replaces the log wholesale; while     *)
(* api_available is false it issues no request, shows an error and leaves   *)
(* the log as it was.                                                       *)
C14_ReloadEffectiveWhenAvailable ==
    [][ /\ ReloadStarts
            => IF api_available
               THEN inflight' = {HistoryRequest}
               ELSE /\ inflight' = {}
                    /\ reqs' = reqs
                    /\ messages' = messages
                    /\ pc' = "idle"
                    /\ Notice("error", "API is not available") \in notices'
        /\ ReloadReplacesLog ]_vars

C14_Witness ==
    /\ Handled("load")
    /\ ~api_available
    /\ messages # <<>>
    /\ reqs = <<>>
    /\ Notice("error", "API is not available") \in notices

(* The log ends with what the last send's result puts there. *)
ResultApplied ==
    LET result == LastResult IN
    IF "error" \in DOMAIN result
    THEN /\ Len(messages) >= 2
         /\ IsUserEntry(messages[Len(messages) - 1], prompt)
         /\ IsAssistantEntry(messages[Len(messages)],
                             "Error: " \o ErrorDisplayText(result))
    ELSE IF "conversationHistory" \in DOMAIN result
            /\ Len(result.conversationHistory) > 0
         THEN IsHistoryVerbatim(messages, result.conversationHistory)
         ELSE /\ Len(messages) >= 2
              /\ IsUserEntry(messages[Len(messages) - 1], prompt)
              /\ IsAssistantEntry(messages[Len(messages)], ErrorDisplayText(result))

(* C15: every accepted submission terminates: once the session awaits the   *)
(* response of a send, it eventually is idle again with the send's result   *)
(* applied to the log (replace, user+assistant pair or user+error pair).    *)
C15_AcceptedSendTerminates ==
    (pc = "send_message") ~> (SendDone /\ ResultApplied)

C15_Witness ==
    /\ SendDone
    /\ ResultApplied
    /\ response.kind = "timeout"
    /\ pre.messages # <<>>

(* C16: every entry of the log has role "user" or "assistant", also the     *)
(* entries taken from a backend history, whatever roles the backend sends.  *)
C16_LogRolesAreUserOrAssistant ==
    \A i \in 1..Len(messages) : messages[i].role \in {"user", "assistant"}

====
